---- MODULE Spec2Model ----
(***************************************************************************)
(* Model of render_app.py: the AliasStore (in-process fields backed by an  *)
(* optional Redis store), the admin handlers that mutate it and the        *)
(* /webhook/optimus forwarding handler.                                    *)
(*                                                                         *)
(* Every HTTP handler is one atomic action.  The durable store is either   *)
(* reachable or unreachable for the whole of a request (variable up); the  *)
(* environment toggles it between requests.  A behaviour is one process    *)
(* lifetime: the store and the in-process fields start empty.              *)
(*                                                                         *)
(* SpecRace refines two admin handlers into their individual store calls   *)
(* and memory accesses, run by two request threads of one instance (the    *)
(* variable inflight holds each thread's position).                        *)
(***************************************************************************)
EXTENDS Integers, Sequences, FiniteSets, TLC

VARIABLES
    PUBLIC_API_KEY,   \* configured client key ("" = check disabled)
    ADMIN_TOKEN,      \* configured admin secret ("" = unset)
    hasR,             \* AliasStore._r is set (REDIS_URL configured)
    up,               \* the durable store answers calls
    redis,            \* contents of the durable store (three keys)
    _mem,             \* AliasStore._mem, per service instance
    _default,         \* AliasStore._default, per service instance
    _target_legacy,   \* AliasStore._target_legacy, per service instance
    registered,       \* history: alias -> URL of the registrations answered 200
    req,              \* the request handled last
    resp,             \* the response it got
    store_calls,      \* AliasStore methods the handler invoked for it
    calls,            \* outbound HTTP calls issued for it
    inflight          \* the request threads running a handler step by step

config == <<PUBLIC_API_KEY, ADMIN_TOKEN, hasR>>
routing == <<redis, _mem, _default, _target_legacy>>
exchange == <<req, resp, store_calls, calls>>
vars == <<config, up, routing, registered, exchange, inflight>>

-----------------------------------------------------------------------------
(* Values *)

None == "<None>"                 \* Python None, an absent header or key
UPSTREAM_API_KEY == "upstream-secret"

Instances == {1, 2}              \* service processes sharing one durable store
Main == 1

Urls == {"http://a", "http://b"}
AliasNames == {"foo", "FOO", "bar"}
Hints == AliasNames \cup {None, ""}
Tokens == {None, "", "adm"}
ClientKeys == {None, "pk", "bad"}
ContentTypes == {None, "application/json", "text/plain"}

MaxBodyLen == 2                  \* longest inbound body, in bytes
Bytes == {"1", " "}              \* a digit and JSON whitespace
RECURSIVE SeqsUpTo(_)
SeqsUpTo(n) ==
    IF n = 0 THEN {<<>>}
    ELSE LET shorter == SeqsUpTo(n - 1)
         IN shorter \cup {Append(s, b) : s \in {t \in shorter : Len(t) = n - 1}, b \in Bytes}
Bodies == SeqsUpTo(MaxBodyLen)

Truthy(x) == x # None /\ x # ""

\* str.lower() on the alias names in use
Lower(x) == CASE x = "FOO" -> "foo"
              [] x = "BAR" -> "bar"
              [] OTHER -> x

\* dict helpers: a dict is a function whose domain is its key set
EmptyDict == [k \in {} |-> None]
DictSet(d, k, v) == [x \in DOMAIN d \cup {k} |-> IF x = k THEN v ELSE d[x]]
DictPop(d, k) == [x \in DOMAIN d \ {k} |-> d[x]]
DictUpdate(d, e) == [x \in DOMAIN d \cup DOMAIN e |-> IF x \in DOMAIN e THEN e[x] ELSE d[x]]

-----------------------------------------------------------------------------
(* AliasStore.  A store state s is the record [mem, dflt, tgt, r]: the     *)
(* three in-process fields of one instance and the durable store.  Every   *)
(* method returns [s, ret, ok]: the state it leaves, the value it returns  *)
(* and ok = FALSE when it ends in an uncaught exception.                   *)

Raise == "<raise>"
Ret(s, v) == [s |-> s, ret |-> v, ok |-> TRUE]
Exc(s) == [s |-> s, ret |-> Raise, ok |-> FALSE]

View(i) == [mem |-> _mem[i], dflt |-> _default[i], tgt |-> _target_legacy[i], r |-> redis]

\* redis-py calls: each raises when the store is unreachable
r_set(s, key, val) == IF up THEN Ret([s EXCEPT !.r[key] = val], None) ELSE Exc(s)
r_get(s, key) == IF up THEN Ret(s, s.r[key]) ELSE Exc(s)
r_delete(s, key) == IF up THEN Ret([s EXCEPT !.r[key] = None], None) ELSE Exc(s)
r_hset(s, field, val) ==
    IF up THEN Ret([s EXCEPT !.r.aliases = DictSet(@, field, val)], None) ELSE Exc(s)
r_hdel(s, field) ==
    IF up THEN Ret([s EXCEPT !.r.aliases = DictPop(@, field)], None) ELSE Exc(s)
r_hgetall(s) == IF up THEN Ret(s, s.r.aliases) ELSE Exc(s)

set_target(s, url) ==
    LET w == IF hasR THEN r_set(s, "target", url) ELSE Ret(s, None)
    IN IF ~w.ok THEN w
       ELSE Ret([w.s EXCEPT !.tgt = url], None)

get_target(s) ==
    LET g == IF hasR THEN r_get(s, "target") ELSE Ret(s, None)
    IN IF ~g.ok THEN g
       ELSE IF hasR /\ Truthy(g.ret) THEN Ret(s, g.ret)
       ELSE Ret(s, s.tgt)

set_default_alias(s, alias) ==
    LET w == IF hasR
             THEN IF Truthy(alias) THEN r_set(s, "alias_default", alias)
                  ELSE r_delete(s, "alias_default")
             ELSE Ret(s, None)
    IN IF ~w.ok THEN w
       ELSE Ret([w.s EXCEPT !.dflt = alias], None)

\* register_alias calling set_default_alias(a if default else None)
register_alias_resets_default(s, alias, url, default) ==
    LET a == Lower(alias)
        w == IF hasR THEN r_hset(s, a, url) ELSE Ret(s, None)
    IN IF ~w.ok THEN w
       ELSE set_default_alias([w.s EXCEPT !.mem = DictSet(@, a, url)],
                              IF default THEN a ELSE None)

\* register_alias storing the alias as given, without alias.lower()
register_alias_keeps_case(s, alias, url, default) ==
    LET w == IF hasR THEN r_hset(s, alias, url) ELSE Ret(s, None)
    IN IF ~w.ok THEN w
       ELSE LET s1 == [w.s EXCEPT !.mem = DictSet(@, alias, url)]
            IN IF default THEN set_default_alias(s1, alias) ELSE Ret(s1, None)

register_alias(s, alias, url, default) ==
    LET a == Lower(alias)
        w == IF hasR THEN r_hset(s, a, url) ELSE Ret(s, None)
    IN IF ~w.ok THEN w
       ELSE LET s1 == [w.s EXCEPT !.mem = DictSet(@, a, url)]
            IN IF default THEN set_default_alias(s1, a) ELSE Ret(s1, None)

get_default_alias(s) ==
    LET g == IF hasR THEN r_get(s, "alias_default") ELSE Ret(s, None)
    IN IF ~g.ok THEN g
       ELSE IF hasR /\ Truthy(g.ret) THEN Ret(s, g.ret)
       ELSE Ret(s, s.dflt)

\* list_aliases with the in-memory entry winning a key collision
list_aliases_memory_wins(s) ==
    LET h == IF hasR THEN r_hgetall(s) ELSE Ret(s, EmptyDict)
    IN IF hasR /\ h.ok THEN Ret(s, DictUpdate(h.ret, s.mem))
       ELSE Ret(s, s.mem)

\* the only method that catches the store's exception
list_aliases(s) ==
    LET h == IF hasR THEN r_hgetall(s) ELSE Ret(s, EmptyDict)
    IN IF hasR /\ h.ok THEN Ret(s, DictUpdate(s.mem, h.ret))
       ELSE Ret(s, s.mem)

delete_alias(s, alias) ==
    LET a == Lower(alias)
        w == IF hasR THEN r_hdel(s, a) ELSE Ret(s, None)
    IN IF ~w.ok THEN w
       ELSE LET s1 == [w.s EXCEPT !.mem = DictPop(@, a)]
                d == get_default_alias(s1)
            IN IF ~d.ok THEN Exc(s1)
               ELSE IF d.ret = a THEN set_default_alias(s1, None)
               ELSE Ret(s1, None)

\* resolve with an unknown hint answering absent instead of falling through
resolve_unknown_hint_absent(s, alias) ==
    LET a == Lower(alias)
        all1 == list_aliases(s).ret
        da == get_default_alias(s)
        all2 == list_aliases(s).ret
    IN IF Truthy(alias)
       THEN Ret(s, IF a \in DOMAIN all1 THEN all1[a] ELSE None)
       ELSE IF ~da.ok THEN da
       ELSE IF Truthy(da.ret) /\ da.ret \in DOMAIN all2 THEN Ret(s, all2[da.ret])
       ELSE get_target(s)

\* resolve looking the hint up as given, without alias.lower()
resolve_case_sensitive(s, alias) ==
    LET all1 == list_aliases(s).ret
        da == get_default_alias(s)
        all2 == list_aliases(s).ret
    IN IF Truthy(alias) /\ alias \in DOMAIN all1 THEN Ret(s, all1[alias])
       ELSE IF ~da.ok THEN da
       ELSE IF Truthy(da.ret) /\ da.ret \in DOMAIN all2 THEN Ret(s, all2[da.ret])
       ELSE get_target(s)

resolve(s, alias) ==
    LET a == Lower(alias)
        all1 == list_aliases(s).ret
        da == get_default_alias(s)
        all2 == list_aliases(s).ret
    IN IF Truthy(alias) /\ a \in DOMAIN all1 THEN Ret(s, all1[a])
       ELSE IF ~da.ok THEN da
       ELSE IF Truthy(da.ret) /\ da.ret \in DOMAIN all2 THEN Ret(s, all2[da.ret])
       ELSE get_target(s)

-----------------------------------------------------------------------------
(* JSON as the handler sees it.  A body is a sequence of bytes; the only   *)
(* JSON documents over Bytes are the integers: digits with optional        *)
(* whitespace around them.                                                 *)

IsWs(c) == c = " "
IsDigit(c) == c = "1"

RECURSIVE LStrip(_)
LStrip(b) == IF b # <<>> /\ IsWs(Head(b)) THEN LStrip(Tail(b)) ELSE b
RECURSIVE RStrip(_)
RStrip(b) == IF b # <<>> /\ IsWs(b[Len(b)]) THEN RStrip(SubSeq(b, 1, Len(b) - 1)) ELSE b

JsonNone == [isNone |-> TRUE, digits |-> <<>>]
JsonInt(ds) == [isNone |-> FALSE, digits |-> ds]

\* json.loads: the value of a well-formed document, None for anything else
json_loads(b) ==
    LET t == RStrip(LStrip(b))
    IN IF t # <<>> /\ \A k \in 1..Len(t) : IsDigit(t[k]) THEN JsonInt(t) ELSE JsonNone

\* json.dumps of a parsed value
json_dumps(v) == v.digits

\* request.is_json
is_json(ctype) == ctype = "application/json"

\* request.get_json(silent=True): None unless the request is declared JSON and parses
get_json(rq) == IF is_json(rq.ctype) THEN json_loads(rq.body) ELSE JsonNone

\* requests.post(json=body): no body at all for None, json.dumps(body) otherwise
outbound_body(rq) ==
    LET body == get_json(rq)
    IN IF body.isNone THEN <<>> ELSE json_dumps(body)

\* the inbound headers copied over the fixed ones: a client x-api-key replaces the secret
outbound_headers_client_key_wins(rq) ==
    [content_type |-> "application/json",
     x_api_key |-> IF Truthy(rq.xk) THEN rq.xk ELSE UPSTREAM_API_KEY,
     x_optimus_model |-> IF Truthy(rq.model) THEN rq.model ELSE None]

outbound_headers(rq) ==
    [content_type |-> "application/json",
     x_api_key |-> UPSTREAM_API_KEY,
     x_optimus_model |-> IF Truthy(rq.model) THEN rq.model ELSE None]

-----------------------------------------------------------------------------
(* Requests, responses and handlers.  A handler returns [s, resp,          *)
(* store_calls, calls].                                                    *)

NoReq == [route |-> "none", method |-> "GET", tok |-> None, alias |-> None, url |-> None,
          default |-> FALSE, ck |-> None, model |-> None, ctype |-> None, body |-> <<>>,
          xk |-> None]

Out(s, r, sc, c) == [s |-> s, resp |-> r, store_calls |-> sc, calls |-> c]

\* jsonify(payload), status
Json(status, payload) ==
    [status |-> status, body |-> payload, content_type |-> "application/json", fault |-> FALSE]
\* an exception no handler catches: the framework's 500
Fault ==
    [status |-> 500, body |-> "Internal Server Error", content_type |-> "text/html", fault |-> TRUE]
Unauthorized == Json(401, "error: Unauthorized")

\* the check without the comparison with the configured secret
require_admin_any_token(rq) == Truthy(rq.tok)

require_admin(rq) == Truthy(rq.tok) /\ rq.tok = ADMIN_TOKEN

health(s) ==
    LET t == get_target(s)
        d == get_default_alias(s)
    IN IF ~t.ok THEN Out(s, Fault, <<"get_target">>, <<>>)
       ELSE IF ~d.ok THEN Out(s, Fault, <<"get_target", "get_default_alias">>, <<>>)
       ELSE Out(s, Json(200, "ok"), <<"get_target", "get_default_alias", "list_aliases">>, <<>>)

\* the tail shared by the alias handlers: list_aliases() and get_default_alias() in the payload
alias_payload(s, first) ==
    LET d == get_default_alias(s)
    IN IF ~d.ok THEN Out(s, Fault, first \o <<"list_aliases", "get_default_alias">>, <<>>)
       ELSE Out(s, Json(200, "ok"), first \o <<"list_aliases", "get_default_alias">>, <<>>)

admin_register(s, rq) ==
    IF ~require_admin(rq) THEN Out(s, Unauthorized, <<>>, <<>>)
    ELSE IF ~Truthy(rq.url) THEN Out(s, Json(400, "error: url requerido"), <<>>, <<>>)
    ELSE LET w == set_target(s, rq.url)
         IN IF ~w.ok THEN Out(w.s, Fault, <<"set_target">>, <<>>)
            ELSE Out(w.s, Json(200, "ok"), <<"set_target">>, <<>>)

admin_alias_register(s, rq) ==
    IF ~require_admin(rq) THEN Out(s, Unauthorized, <<>>, <<>>)
    ELSE IF ~Truthy(rq.alias) \/ ~Truthy(rq.url)
         THEN Out(s, Json(400, "error: alias y url requeridos"), <<>>, <<>>)
    ELSE LET w == register_alias(s, rq.alias, rq.url, rq.default)
         IN IF ~w.ok THEN Out(w.s, Fault, <<"register_alias">>, <<>>)
            ELSE alias_payload(w.s, <<"register_alias">>)

admin_alias_set_default(s, rq) ==
    IF ~require_admin(rq) THEN Out(s, Unauthorized, <<>>, <<>>)
    ELSE IF ~Truthy(rq.alias) THEN Out(s, Json(400, "error: alias requerido"), <<>>, <<>>)
    ELSE LET w == set_default_alias(s, rq.alias)
             d == get_default_alias(w.s)
         IN IF ~w.ok THEN Out(w.s, Fault, <<"set_default_alias">>, <<>>)
            ELSE IF ~d.ok THEN Out(w.s, Fault, <<"set_default_alias", "get_default_alias">>, <<>>)
            ELSE Out(w.s, Json(200, "ok"), <<"set_default_alias", "get_default_alias">>, <<>>)

admin_alias_list(s, rq) ==
    IF ~require_admin(rq) THEN Out(s, Unauthorized, <<>>, <<>>)
    ELSE alias_payload(s, <<>>)

admin_alias_delete(s, rq) ==
    IF ~require_admin(rq) THEN Out(s, Unauthorized, <<>>, <<>>)
    ELSE LET w == delete_alias(s, rq.alias)
         IN IF ~w.ok THEN Out(w.s, Fault, <<"delete_alias">>, <<>>)
            ELSE alias_payload(w.s, <<"delete_alias">>)

\* the client-key check skipped when the header is missing
client_authorized_missing_ok(rq) ==
    PUBLIC_API_KEY = "" \/ rq.ck = None \/ rq.ck = PUBLIC_API_KEY

\* lines 149-152: the client-key check
client_authorized(rq) == PUBLIC_API_KEY = "" \/ rq.ck = PUBLIC_API_KEY

\* the two except clauses in the other order: a timeout is a RequestException too
upstream_result_timeout_as_error(o) ==
    IF o.kind = "timeout" \/ o.kind = "error" THEN Json(502, "error: upstream error")
    ELSE [status |-> o.status, body |-> o.content,
          content_type |-> IF o.content_type = None THEN "application/json" ELSE o.content_type,
          fault |-> FALSE]

\* the relay built without status=r.status_code: every upstream answer relayed as 200
upstream_result_status_dropped(o) ==
    IF o.kind = "timeout" THEN Json(504, "error: timeout upstream")
    ELSE IF o.kind = "error" THEN Json(502, "error: upstream error")
    ELSE [status |-> 200, body |-> o.content,
          content_type |-> IF o.content_type = None THEN "application/json" ELSE o.content_type,
          fault |-> FALSE]

\* lines 168-175: what the upstream call's outcome o becomes
upstream_result(o) ==
    IF o.kind = "timeout" THEN Json(504, "error: timeout upstream")
    ELSE IF o.kind = "error" THEN Json(502, "error: upstream error")
    ELSE [status |-> o.status, body |-> o.content,
          content_type |-> IF o.content_type = None THEN "application/json" ELSE o.content_type,
          fault |-> FALSE]

\* requests.post(...): the calls made for one inbound request
upstream_calls(target, rq, o) ==
    <<[target |-> target, body |-> outbound_body(rq), headers |-> outbound_headers(rq),
       outcome |-> o]>>

\* the answer for an unresolved target, with the status of an upstream failure
no_backend_as_bad_gateway == Json(502, "error: No hay backend registrado")

\* line 157
no_backend == Json(503, "error: No hay backend registrado")

\* the handler with the client-key check moved above the OPTIONS test
proxy_webhook_auth_first(s, rq, o) ==
    IF ~client_authorized(rq)
    THEN Out(s, Json(401, "error: Unauthorized client"), <<>>, <<>>)
    ELSE IF rq.method = "OPTIONS"
    THEN Out(s, [status |-> 204, body |-> "", content_type |-> "text/html", fault |-> FALSE],
             <<>>, <<>>)
    ELSE LET t == resolve(s, rq.alias)
         IN IF ~t.ok THEN Out(s, Fault, <<"resolve">>, <<>>)
            ELSE IF ~Truthy(t.ret)
            THEN Out(s, no_backend, <<"resolve">>, <<>>)
            ELSE Out(s, upstream_result(o), <<"resolve">>, upstream_calls(t.ret, rq, o))

proxy_webhook(s, rq, o) ==
    IF rq.method = "OPTIONS"
    THEN Out(s, [status |-> 204, body |-> "", content_type |-> "text/html", fault |-> FALSE],
             <<>>, <<>>)
    ELSE IF ~client_authorized(rq)
    THEN Out(s, Json(401, "error: Unauthorized client"), <<>>, <<>>)
    ELSE LET t == resolve(s, rq.alias)
         IN IF ~t.ok THEN Out(s, Fault, <<"resolve">>, <<>>)
            ELSE IF ~Truthy(t.ret)
            THEN Out(s, no_backend, <<"resolve">>, <<>>)
            ELSE Out(s, upstream_result(o), <<"resolve">>, upstream_calls(t.ret, rq, o))

-----------------------------------------------------------------------------
(* Inputs *)

Rq(route, method) == [NoReq EXCEPT !.route = route, !.method = method]

\* An admin request: the given argument values with the token "adm", and one request per
\* other token, since the handler returns before it reads anything else.
WithToken(authorized, rejected) ==
    {[r EXCEPT !.tok = "adm"] : r \in authorized}
        \cup {[rejected EXCEPT !.tok = k] : k \in Tokens \ {"adm"}}

AdminRegisterRequests ==
    WithToken({[Rq("admin_register", "POST") EXCEPT !.url = u] : u \in Urls \cup {None}},
              [Rq("admin_register", "POST") EXCEPT !.url = "http://a"])

AdminAliasRegisterRequests ==
    WithToken({[Rq("admin_alias_register", "POST") EXCEPT !.alias = a, !.url = u, !.default = d] :
                   a \in AliasNames, u \in Urls, d \in BOOLEAN}
                  \cup {[Rq("admin_alias_register", "POST") EXCEPT !.url = "http://a"],
                        [Rq("admin_alias_register", "POST") EXCEPT !.alias = "foo"]},
              [Rq("admin_alias_register", "POST") EXCEPT !.alias = "foo", !.url = "http://a"])

AdminAliasSetDefaultRequests ==
    WithToken({[Rq("admin_alias_set_default", "POST") EXCEPT !.alias = a] :
                   a \in AliasNames \cup {None}},
              [Rq("admin_alias_set_default", "POST") EXCEPT !.alias = "foo"])

AdminAliasListRequests ==
    WithToken({Rq("admin_alias_list", "GET")}, Rq("admin_alias_list", "GET"))

AdminAliasDeleteRequests ==
    WithToken({[Rq("admin_alias_delete", "DELETE") EXCEPT !.alias = a] : a \in AliasNames},
              [Rq("admin_alias_delete", "DELETE") EXCEPT !.alias = "foo"])

\* POSTs to /webhook/optimus over the given header and body values, and the preflight
ProxyRequests(hints, ctypes, bodies) ==
    {[Rq("proxy_webhook", "POST") EXCEPT !.ck = k, !.alias = h, !.ctype = c, !.body = b] :
         k \in ClientKeys, h \in hints, c \in ctypes, b \in bodies}
        \cup {Rq("proxy_webhook", "OPTIONS")}

\* POSTs to /webhook/optimus over the headers the handler can see: x-client-key, a client's
\* own x-api-key (xk), x-optimus-model and Content-Type; the body is a fixed JSON document
HeaderRequests ==
    {[Rq("proxy_webhook", "POST") EXCEPT !.ck = k, !.xk = x, !.model = m, !.ctype = c,
                                         !.body = <<"1">>] :
         k \in ClientKeys, x \in {None, "client-secret"}, m \in {None, "model-x"},
         c \in ContentTypes}

\* what the upstream call can end in
Answer(status, ctype) ==
    [kind |-> "response", status |-> status, content |-> "upstream-content",
     content_type |-> ctype]
Timeout == [kind |-> "timeout", status |-> 0, content |-> "", content_type |-> None]
NetError == [kind |-> "error", status |-> 0, content |-> "", content_type |-> None]
Outcomes == {Answer(200, None), Answer(500, "text/plain"), Timeout, NetError}

-----------------------------------------------------------------------------
(* State machine *)

\* the two request threads of the race: "del" runs a delete, "set" a set-default or a
\* registration with default=true
Threads == {"del", "set"}
IdleThread == [pc |-> "idle", rq |-> NoReq]

Init ==
    /\ PUBLIC_API_KEY \in {"", "pk"}
    /\ ADMIN_TOKEN \in {"", "adm"}
    /\ hasR \in BOOLEAN
    /\ up = TRUE
    /\ redis = [target |-> None, aliases |-> EmptyDict, alias_default |-> None]
    /\ _mem = [i \in Instances |-> EmptyDict]
    /\ _default = [i \in Instances |-> None]
    /\ _target_legacy = [i \in Instances |-> None]
    /\ registered = EmptyDict
    /\ req = NoReq
    /\ resp = [status |-> 0, body |-> "", content_type |-> None, fault |-> FALSE]
    /\ store_calls = <<>>
    /\ calls = <<>>
    /\ inflight = [t \in Threads |-> IdleThread]

\* instance i answers request rq as the handler result h says
Handle(i, rq, h) ==
    /\ redis' = h.s.r
    /\ _mem' = [_mem EXCEPT ![i] = h.s.mem]
    /\ _default' = [_default EXCEPT ![i] = h.s.dflt]
    /\ _target_legacy' = [_target_legacy EXCEPT ![i] = h.s.tgt]
    /\ req' = rq
    /\ resp' = h.resp
    /\ store_calls' = h.store_calls
    /\ calls' = h.calls
    /\ UNCHANGED <<config, up, inflight>>

Health(i) ==
    /\ Handle(i, Rq("health", "GET"), health(View(i)))
    /\ UNCHANGED registered

AdminRegister(i) ==
    \E rq \in AdminRegisterRequests :
        /\ Handle(i, rq, admin_register(View(i), rq))
        /\ UNCHANGED registered

AdminAliasRegister(i) ==
    \E rq \in AdminAliasRegisterRequests :
        LET h == admin_alias_register(View(i), rq)
        IN /\ Handle(i, rq, h)
           /\ registered' = IF h.resp.status = 200
                            THEN DictSet(registered, Lower(rq.alias), rq.url)
                            ELSE registered

AdminAliasSetDefault(i) ==
    \E rq \in AdminAliasSetDefaultRequests :
        /\ Handle(i, rq, admin_alias_set_default(View(i), rq))
        /\ UNCHANGED registered

AdminAliasList(i) ==
    \E rq \in AdminAliasListRequests :
        /\ Handle(i, rq, admin_alias_list(View(i), rq))
        /\ UNCHANGED registered

AdminAliasDelete(i) ==
    \E rq \in AdminAliasDeleteRequests :
        LET h == admin_alias_delete(View(i), rq)
        IN /\ Handle(i, rq, h)
           /\ registered' = IF h.resp.status = 200
                            THEN DictPop(registered, Lower(rq.alias))
                            ELSE registered

\* a request on /webhook/optimus that names an alias; the body is a fixed JSON document
ProxyWebhook(i) ==
    \E rq \in ProxyRequests(Hints \ {""}, {"application/json"}, {<<"1">>}) :
        /\ Handle(i, rq, proxy_webhook(View(i), rq, Answer(200, None)))
        /\ UNCHANGED registered

\* a request on /webhook/optimus with any body and content type, and any upstream outcome
ProxyWebhookBody(i) ==
    \E rq \in ProxyRequests({None}, ContentTypes, Bodies), o \in Outcomes :
        /\ Handle(i, rq, proxy_webhook(View(i), rq, o))
        /\ UNCHANGED registered

\* a request on /webhook/optimus with any combination of headers
ProxyWebhookHeaders(i) ==
    \E rq \in HeaderRequests, o \in {Answer(200, None), Timeout} :
        /\ Handle(i, rq, proxy_webhook(View(i), rq, o))
        /\ UNCHANGED registered

\* the durable store becomes unreachable, and reachable again
RedisDown ==
    /\ hasR /\ up
    /\ up' = FALSE
    /\ UNCHANGED <<config, routing, registered, exchange, inflight>>

RedisUp ==
    /\ hasR /\ ~up
    /\ up' = TRUE
    /\ UNCHANGED <<config, routing, registered, exchange, inflight>>

\* one instance: the admin channel, health and forwarding by alias
Next ==
    \/ Health(Main)
    \/ AdminRegister(Main)
    \/ AdminAliasRegister(Main)
    \/ AdminAliasSetDefault(Main)
    \/ AdminAliasList(Main)
    \/ AdminAliasDelete(Main)
    \/ ProxyWebhook(Main)
    \/ RedisDown
    \/ RedisUp

Spec == Init /\ [][Next]_vars

\* one instance with the legacy target only: forwarding of arbitrary bodies
NextForward ==
    \/ AdminRegister(Main)
    \/ ProxyWebhookBody(Main)
    \/ RedisDown
    \/ RedisUp

SpecForward == Init /\ [][NextForward]_vars

\* one instance with the legacy target only: forwarding under every header combination
NextHeaders ==
    \/ AdminRegister(Main)
    \/ ProxyWebhookHeaders(Main)
    \/ RedisDown
    \/ RedisUp

SpecHeaders == Init /\ [][NextHeaders]_vars

\* Two instances of the service behind one durable store. The admin requests carry the
\* configured token; SharedNames and SharedUrls are the aliases and URLs they name.
SharedNames == {"foo", "bar"}
SharedUrls(a) == IF a = "foo" THEN Urls ELSE {"http://a"}

InitShared == Init /\ PUBLIC_API_KEY = "" /\ ADMIN_TOKEN = "adm"

AdminRegisterShared(i) ==
    \E rq \in {r \in AdminRegisterRequests : r.tok = "adm" /\ r.url = "http://a"} :
        /\ Handle(i, rq, admin_register(View(i), rq))
        /\ UNCHANGED registered

AdminAliasRegisterShared(i) ==
    \E rq \in {r \in AdminAliasRegisterRequests :
                   r.tok = "adm" /\ r.alias \in SharedNames /\ r.url \in SharedUrls(r.alias)
                       /\ ~r.default} :
        LET h == admin_alias_register(View(i), rq)
        IN /\ Handle(i, rq, h)
           /\ registered' = IF h.resp.status = 200
                            THEN DictSet(registered, Lower(rq.alias), rq.url)
                            ELSE registered

AdminAliasSetDefaultShared(i) ==
    \E rq \in {r \in AdminAliasSetDefaultRequests : r.tok = "adm" /\ r.alias \in SharedNames} :
        /\ Handle(i, rq, admin_alias_set_default(View(i), rq))
        /\ UNCHANGED registered

AdminAliasDeleteShared(i) ==
    \E rq \in {r \in AdminAliasDeleteRequests : r.tok = "adm" /\ r.alias \in SharedNames} :
        LET h == admin_alias_delete(View(i), rq)
        IN /\ Handle(i, rq, h)
           /\ registered' = IF h.resp.status = 200
                            THEN DictPop(registered, Lower(rq.alias))
                            ELSE registered

NextShared ==
    \/ \E i \in Instances :
           \/ AdminRegisterShared(i)
           \/ AdminAliasRegisterShared(i)
           \/ AdminAliasSetDefaultShared(i)
           \/ AdminAliasDeleteShared(i)
    \/ RedisDown
    \/ RedisUp

SpecShared == InitShared /\ [][NextShared]_vars

-----------------------------------------------------------------------------
(* Two admin requests of one instance running concurrently.  Each store    *)
(* call and each access to an in-process field is one step of its thread.  *)

Quiet == \A t \in Threads : inflight[t].pc = "idle"

\* thread t enters the handler with request rq: require_admin passed, first step is pc
Begin(t, rq, pc) ==
    /\ inflight[t].pc = "idle"
    /\ require_admin(rq)
    /\ inflight' = [inflight EXCEPT ![t] = [pc |-> pc, rq |-> rq]]
    /\ UNCHANGED <<config, up, routing, registered, exchange>>

\* thread t made the store call or memory access w: it goes on to pc, or the exception
\* ends its request
Step(t, w, pc) ==
    /\ redis' = w.s.r
    /\ _mem' = [_mem EXCEPT ![Main] = w.s.mem]
    /\ _default' = [_default EXCEPT ![Main] = w.s.dflt]
    /\ _target_legacy' = [_target_legacy EXCEPT ![Main] = w.s.tgt]
    /\ IF w.ok
       THEN /\ inflight' = [inflight EXCEPT ![t].pc = pc]
            /\ UNCHANGED exchange
       ELSE /\ inflight' = [inflight EXCEPT ![t].pc = "done"]
            /\ req' = inflight[t].rq
            /\ resp' = Fault
            /\ store_calls' = <<>>
            /\ calls' = <<>>
    /\ UNCHANGED <<config, up, registered>>

\* the alias a thread works on: a = alias.lower() in register_alias and delete_alias, the
\* alias as received in admin_alias_set_default
ThreadAlias(t) ==
    IF inflight[t].rq.route = "admin_alias_set_default"
    THEN inflight[t].rq.alias
    ELSE Lower(inflight[t].rq.alias)

BeginDelete ==
    \E rq \in {r \in AdminAliasDeleteRequests : r.alias \in SharedNames} :
        /\ rq.tok = "adm"
        /\ Begin("del", rq, "hdel")

\* delete_alias: self._r.hdel(self.key_aliases, a)
DeleteHdel ==
    /\ inflight["del"].pc = "hdel"
    /\ Step("del",
            IF hasR THEN r_hdel(View(Main), ThreadAlias("del")) ELSE Ret(View(Main), None),
            "pop")

\* delete_alias: self._mem.pop(a, None)
DeletePop ==
    /\ inflight["del"].pc = "pop"
    /\ Step("del", Ret([View(Main) EXCEPT !.mem = DictPop(@, ThreadAlias("del"))], None), "get")

\* get_default_alias called by delete_alias: the store read, compared with a when truthy
DeleteGetDefault ==
    /\ inflight["del"].pc = "get"
    /\ LET g == IF hasR THEN r_get(View(Main), "alias_default") ELSE Ret(View(Main), None)
       IN Step("del", g,
               IF hasR /\ Truthy(g.ret)
               THEN IF g.ret = ThreadAlias("del") THEN "clear_store" ELSE "respond"
               ELSE "read_default")

\* get_default_alias called by delete_alias: return self._default, compared with a
DeleteReadDefault ==
    /\ inflight["del"].pc = "read_default"
    /\ Step("del", Ret(View(Main), None),
            IF View(Main).dflt = ThreadAlias("del") THEN "clear_store" ELSE "respond")

\* set_default_alias(None) called by delete_alias: self._r.delete(self.key_default)
DeleteClearStore ==
    /\ inflight["del"].pc = "clear_store"
    /\ Step("del",
            IF hasR THEN r_delete(View(Main), "alias_default") ELSE Ret(View(Main), None),
            "clear_default")

\* set_default_alias(None) called by delete_alias: self._default = None
DeleteClearDefault ==
    /\ inflight["del"].pc = "clear_default"
    /\ Step("del", Ret([View(Main) EXCEPT !.dflt = None], None), "respond")

BeginSetDefault ==
    \E rq \in {r \in AdminAliasSetDefaultRequests : r.alias \in SharedNames} :
        /\ rq.tok = "adm"
        /\ Begin("set", rq, "set_store")

BeginRegister ==
    \E rq \in {r \in AdminAliasRegisterRequests :
                   r.alias \in SharedNames /\ r.url = "http://a" /\ r.default} :
        /\ rq.tok = "adm"
        /\ Begin("set", rq, "hset")

\* register_alias: self._r.hset(self.key_aliases, a, url)
RegisterHset ==
    /\ inflight["set"].pc = "hset"
    /\ Step("set",
            IF hasR THEN r_hset(View(Main), ThreadAlias("set"), inflight["set"].rq.url)
            ELSE Ret(View(Main), None),
            "mem")

\* register_alias: self._mem[a] = url
RegisterMem ==
    /\ inflight["set"].pc = "mem"
    /\ Step("set",
            Ret([View(Main) EXCEPT
                     !.mem = DictSet(@, ThreadAlias("set"), inflight["set"].rq.url)], None),
            "set_store")

\* set_default_alias(alias): self._r.set(self.key_default, alias)
SetDefaultStore ==
    /\ inflight["set"].pc = "set_store"
    /\ Step("set",
            IF hasR THEN r_set(View(Main), "alias_default", ThreadAlias("set"))
            ELSE Ret(View(Main), None),
            "set_default")

\* set_default_alias(alias): self._default = alias
SetDefaultMem ==
    /\ inflight["set"].pc = "set_default"
    /\ Step("set", Ret([View(Main) EXCEPT !.dflt = ThreadAlias("set")], None), "respond")

\* the handler's return: the payload reads list_aliases() and get_default_alias()
Respond(t) ==
    /\ inflight[t].pc = "respond"
    /\ LET rq == inflight[t].rq
           d == get_default_alias(View(Main))
           h == IF rq.route = "admin_alias_set_default"
                THEN IF ~d.ok
                     THEN Out(View(Main), Fault, <<"set_default_alias", "get_default_alias">>, <<>>)
                     ELSE Out(View(Main), Json(200, "ok"),
                              <<"set_default_alias", "get_default_alias">>, <<>>)
                ELSE alias_payload(View(Main), IF rq.route = "admin_alias_delete"
                                      THEN <<"delete_alias">> ELSE <<"register_alias">>)
       IN /\ req' = rq
          /\ resp' = h.resp
          /\ store_calls' = h.store_calls
          /\ calls' = h.calls
          /\ registered' = IF h.resp.status # 200 \/ rq.route = "admin_alias_set_default"
                           THEN registered
                           ELSE IF rq.route = "admin_alias_delete"
                           THEN DictPop(registered, Lower(rq.alias))
                           ELSE DictSet(registered, Lower(rq.alias), rq.url)
    /\ inflight' = [inflight EXCEPT ![t].pc = "done"]
    /\ UNCHANGED <<config, up, routing>>

\* requests are handled one at a time before the two concurrent ones start
NextRace ==
    \/ Quiet /\ AdminAliasRegisterShared(Main)
    \/ Quiet /\ AdminAliasSetDefaultShared(Main)
    \/ Quiet /\ AdminAliasDeleteShared(Main)
    \/ BeginDelete
    \/ DeleteHdel
    \/ DeletePop
    \/ DeleteGetDefault
    \/ DeleteReadDefault
    \/ DeleteClearStore
    \/ DeleteClearDefault
    \/ BeginSetDefault
    \/ BeginRegister
    \/ RegisterHset
    \/ RegisterMem
    \/ SetDefaultStore
    \/ SetDefaultMem
    \/ \E t \in Threads : Respond(t)

SpecRace == InitShared /\ [][NextRace]_vars

-----------------------------------------------------------------------------
(* Properties *)

V == View(Main)

\* a step in which a handler answered a request (the environment's steps change up)
HandlerStep == up' = up

HintMatches(h) == Truthy(h) /\ Lower(h) \in DOMAIN list_aliases(V).ret
DefaultEffective ==
    /\ get_default_alias(V).ok
    /\ Truthy(get_default_alias(V).ret)
    /\ get_default_alias(V).ret \in DOMAIN list_aliases(V).ret

\* C1: resolve(h) is the hinted alias's URL when lowercase(h) is in the alias map; else the
\* default alias's URL when a default is set and in the map; else whatever getTarget() gives.
\* An unknown hint and a dangling default fall through to the next rule.
C1_ResolvePrecedence ==
    \A h \in Hints :
        /\ HintMatches(h) => resolve(V, h) = Ret(V, list_aliases(V).ret[Lower(h)])
        /\ ~HintMatches(h) /\ DefaultEffective
               => resolve(V, h) = Ret(V, list_aliases(V).ret[get_default_alias(V).ret])
        /\ ~HintMatches(h) /\ get_default_alias(V).ok /\ ~DefaultEffective
               => resolve(V, h) = get_target(V)
        /\ ~HintMatches(h) /\ ~get_default_alias(V).ok => ~resolve(V, h).ok

\* a forwarded request whose hint is unknown while the default dangles: the legacy target
C1_Witness ==
    /\ req.route = "proxy_webhook" /\ Truthy(req.alias) /\ ~HintMatches(req.alias)
    /\ Truthy(get_default_alias(V).ret) /\ ~DefaultEffective
    /\ list_aliases(V).ret # EmptyDict
    /\ calls # <<>> /\ calls[1].target = get_target(V).ret

\* C2: every alias registered and not deleted since resolves, under every case variant, to
\* the URL of its last registration, whatever the default and the legacy target are.
C2_RegisteredResolves ==
    \A a \in DOMAIN registered : \A h \in AliasNames :
        Lower(h) = a => resolve(V, h) = Ret(V, registered[a])

\* "foo" registered, re-registered with another URL, and not the default
C2_Witness ==
    /\ "foo" \in DOMAIN registered
    /\ resolve(V, "FOO").ret = "http://b"
    /\ req.route = "admin_alias_register" /\ req.url = "http://b" /\ resp.status = 200
    /\ get_default_alias(V).ret = "bar" /\ "bar" \in DOMAIN registered
    /\ registered["bar"] = "http://a"
    /\ get_target(V).ret = "http://a"

IsRegister(rq, rs) == rq.route = "admin_alias_register" /\ rs.status = 200

\* C3: after registerAlias(x, a, default=true), resolve(none) is a; after a following
\* registerAlias(x, b) without the default flag, the default is unchanged and resolve(none) is b.
C3_DefaultPersists ==
    /\ [][HandlerStep /\ IsRegister(req', resp') /\ req'.default
              => resolve(V, None)' = Ret(V', req'.url)]_vars
    /\ [][(/\ HandlerStep
           /\ IsRegister(req, resp) /\ req.default
           /\ IsRegister(req', resp') /\ ~req'.default
           /\ Lower(req'.alias) = Lower(req.alias))
              => /\ get_default_alias(V)' = Ret(V', Lower(req.alias))
                 /\ resolve(V, None)' = Ret(V', req'.url)]_vars

\* the second registration has moved the default alias's URL
C3_Witness ==
    /\ IsRegister(req, resp) /\ ~req.default /\ req.url = "http://b"
    /\ get_default_alias(V).ret = Lower(req.alias)
    /\ resolve(V, None).ret = "http://b"
    /\ get_target(V).ret = "http://a"

IsDelete(rq, rs) == rq.route = "admin_alias_delete" /\ rs.status = 200

\* C4: deleting the alias that getDefaultAlias() returns, under any case variant, leaves no
\* default and removes the alias from listAliases(); deleting another alias leaves the default.
C4_DeleteClearsDefault ==
    [][HandlerStep /\ IsDelete(req', resp') /\ get_default_alias(V).ok
          => LET d == get_default_alias(V).ret
             IN IF Truthy(d) /\ Lower(d) = Lower(req'.alias)
                THEN /\ get_default_alias(V)'.ret = None
                     /\ d \notin DOMAIN list_aliases(V)'.ret
                ELSE get_default_alias(V)'.ret = d]_vars

\* C5: a registration leaves the alias mapped to the new URL and every other entry as it
\* was; the number of entries is unchanged when the alias was registered under any letter
\* case, and one more when it was not.
C5_LastWriteWins ==
    [][HandlerStep /\ IsRegister(req', resp')
          => LET a == Lower(req'.alias)
                 before == list_aliases(V).ret
                 after == list_aliases(V)'.ret
                 known == \E k \in DOMAIN before : Lower(k) = a
             IN /\ a \in DOMAIN after /\ after[a] = req'.url
                /\ \A k \in DOMAIN after : Lower(k) = a => k = a
                /\ \A k \in DOMAIN before : Lower(k) # a => k \in DOMAIN after /\ after[k] = before[k]
                /\ known => Cardinality(DOMAIN after) = Cardinality(DOMAIN before)
                /\ ~known => Cardinality(DOMAIN after) = Cardinality(DOMAIN before) + 1]_vars

\* "FOO" registered over "foo": one entry for the alias, a second one for "bar"
C5_Witness ==
    /\ IsRegister(req, resp) /\ req.alias = "FOO" /\ req.url = "http://b"
    /\ Cardinality(DOMAIN list_aliases(V).ret) = 2
    /\ list_aliases(V).ret["foo"] = "http://b"
    /\ list_aliases(V).ret["bar"] = "http://a"

Forwarded == req.route = "proxy_webhook" /\ calls # <<>>

\* C6: the body of the outbound request is the inbound body, byte for byte
C6_BodyByteIdentical == Forwarded => calls[1].body = req.body

\* C7: an authenticated POST on the forwarding path whose resolve(hint) is absent gets a 503
\* with an error payload, and no outbound call is made.
C7_NoTarget503 ==
    [][(/\ HandlerStep
        /\ req'.route = "proxy_webhook" /\ req'.method = "POST"
        /\ client_authorized(req')
        /\ resolve(V, req'.alias) = Ret(V, None))
          => /\ resp'.status = 503
             /\ resp'.body = "error: No hay backend registrado"
             /\ resp'.content_type = "application/json"
             /\ calls' = <<>>]_vars

\* a client with the right key names an unknown alias; the default dangles, no legacy target
C7_Witness ==
    /\ req.route = "proxy_webhook" /\ req.method = "POST"
    /\ PUBLIC_API_KEY # "" /\ req.ck = PUBLIC_API_KEY
    /\ Truthy(req.alias) /\ Truthy(get_default_alias(V).ret)
    /\ list_aliases(V).ret # EmptyDict
    /\ resp.status = 503 /\ calls = <<>>

\* C8: with a client key configured, a POST whose client-key header is missing or different
\* gets a 401; no AliasStore method is called and no outbound call is made for it.
C8_ClientKeyMismatch401 ==
    (/\ req.route = "proxy_webhook" /\ req.method = "POST"
     /\ PUBLIC_API_KEY # "" /\ req.ck # PUBLIC_API_KEY)
        => resp.status = 401 /\ store_calls = <<>> /\ calls = <<>>

\* the header is missing while the hinted alias would resolve
C8_Witness ==
    /\ req.route = "proxy_webhook" /\ req.method = "POST"
    /\ PUBLIC_API_KEY # "" /\ req.ck = None
    /\ resolve(V, req.alias).ret \in Urls
    /\ resp.status = 401 /\ store_calls = <<>> /\ calls = <<>>

\* C9: a timeout of the upstream call is answered 504, any other network failure 502 with a
\* JSON error payload; a request makes at most one outbound call.
C9_UpstreamFailureTerminal ==
    /\ Len(calls) <= 1
    /\ Forwarded /\ calls[1].outcome.kind = "timeout" => resp.status = 504
    /\ Forwarded /\ calls[1].outcome.kind = "error"
           => /\ resp.status = 502
              /\ resp.body = "error: upstream error"
              /\ resp.content_type = "application/json"

\* the one call timed out
C9_Witness ==
    /\ Forwarded /\ Len(calls) = 1 /\ calls[1].outcome.kind = "timeout"
    /\ req.body # <<>> /\ resp.status = 504

\* C10: with the durable store configured and unreachable, every AliasStore method still
\* completes, and no request ends in an unhandled fault.
C10_StorageFailureSwallowed ==
    /\ ~resp.fault
    /\ hasR /\ ~up =>
          /\ get_target(V).ok /\ get_default_alias(V).ok /\ list_aliases(V).ok
          /\ \A h \in Hints : resolve(V, h).ok
          /\ \A u \in Urls : set_target(V, u).ok
          /\ \A a \in AliasNames :
                /\ set_default_alias(V, a).ok /\ delete_alias(V, a).ok
                /\ \A u \in Urls, d \in BOOLEAN : register_alias(V, a, u, d).ok


Answered == Forwarded /\ calls[1].outcome.kind = "response"

\* C11 as stated: the client gets the upstream's body, status code and content type, unchanged
C11_RelayUnchanged ==
    Answered => /\ resp.body = calls[1].outcome.content
                /\ resp.status = calls[1].outcome.status
                /\ resp.content_type = calls[1].outcome.content_type

\* C11, amended: the client gets the upstream's body and status code unchanged, and the
\* upstream's content type when it sent one, application/json when it sent none.
C11_RelayUnchangedOrJson ==
    Answered => /\ resp.body = calls[1].outcome.content
                /\ resp.status = calls[1].outcome.status
                /\ ~resp.fault
                /\ resp.content_type = IF calls[1].outcome.content_type = None
                                       THEN "application/json"
                                       ELSE calls[1].outcome.content_type

\* an upstream error page is relayed as it is
C11_Witness ==
    /\ Answered /\ calls[1].outcome.status = 500
    /\ resp.status = 500 /\ resp.body = "upstream-content" /\ resp.content_type = "text/plain"


\* the headers of the outbound calls a handler result h holds
HeadersOf(h) == {h.calls[k].headers : k \in 1..Len(h.calls)}

\* two requests that differ at most in x-client-key and in the client's own x-api-key
SameButAuth(r1, r2) ==
    [r1 EXCEPT !.ck = None, !.xk = None] = [r2 EXCEPT !.ck = None, !.xk = None]

\* C12: two authenticated requests that differ only in x-client-key and x-api-key give the
\* same outbound headers; the outbound headers never hold the client key or the client's
\* x-api-key, and always carry x-api-key set to the configured upstream secret.
C12_OutboundHeadersIndependent ==
    /\ Forwarded =>
          /\ calls[1].headers.x_api_key = UPSTREAM_API_KEY
          /\ \A f \in DOMAIN calls[1].headers :
                /\ Truthy(req.ck) => calls[1].headers[f] # req.ck
                /\ Truthy(req.xk) => calls[1].headers[f] # req.xk
    /\ \A r1 \in HeaderRequests, r2 \in HeaderRequests :
          SameButAuth(r1, r2) /\ client_authorized(r1) /\ client_authorized(r2)
              => \A o \in Outcomes :
                    HeadersOf(proxy_webhook(V, r1, o)) = HeadersOf(proxy_webhook(V, r2, o))

\* a client with the right key sends an x-api-key of its own: the upstream gets the secret
C12_Witness ==
    /\ Forwarded /\ PUBLIC_API_KEY = "pk" /\ req.ck = "pk" /\ req.xk = "client-secret"
    /\ req.model = "model-x" /\ calls[1].headers.x_optimus_model = "model-x"
    /\ calls[1].headers.x_api_key = UPSTREAM_API_KEY


\* C16: the outbound Content-Type is the inbound request's Content-Type when it has one, and
\* application/json when it has none.
C16_ContentTypeFollowsInbound ==
    Forwarded => calls[1].headers.content_type =
                     IF req.ctype = None THEN "application/json" ELSE req.ctype


\* preflights carrying every combination of headers and hints
OptionsRequests ==
    {[r EXCEPT !.method = "OPTIONS"] :
         r \in HeaderRequests \cup ProxyRequests(Hints, {"application/json"}, {<<"1">>})}

\* C13: an OPTIONS request on the forwarding path gets an empty 204 whatever the client key
\* configured, its headers and the routing state; no client-key check result, AliasStore
\* call or outbound call comes before it.
C13_PreflightFirst ==
    /\ req.route = "proxy_webhook" /\ req.method = "OPTIONS"
           => resp.status = 204 /\ resp.body = "" /\ store_calls = <<>> /\ calls = <<>>
    /\ \A rq \in OptionsRequests, o \in {Answer(200, None), Timeout} :
           LET h == proxy_webhook(V, rq, o)
           IN /\ h.resp.status = 204 /\ h.resp.body = "" /\ ~h.resp.fault
              /\ h.store_calls = <<>> /\ h.calls = <<>> /\ h.s = V

\* a preflight without the configured client key, while nothing would resolve and the store
\* is unreachable
C13_Witness ==
    /\ req.route = "proxy_webhook" /\ req.method = "OPTIONS"
    /\ PUBLIC_API_KEY # "" /\ req.ck # PUBLIC_API_KEY
    /\ hasR /\ ~up /\ list_aliases(V).ret = EmptyDict
    /\ resp.status = 204 /\ store_calls = <<>> /\ calls = <<>>


AdminRoutes ==
    {"admin_register", "admin_alias_register", "admin_alias_set_default", "admin_alias_list",
     "admin_alias_delete"}

\* C14: an admin request whose token is missing or differs from the configured secret is
\* answered 401 and changes nothing of the routing state; health, list and forwarding
\* requests change nothing of it; and every step that changes it is a register-target,
\* register-alias, set-default or delete-alias request carrying the configured secret.
C14_OnlyAdminMutates ==
    [][HandlerStep =>
          /\ req'.route \in AdminRoutes /\ (req'.tok = None \/ req'.tok # ADMIN_TOKEN)
                 => resp'.status = 401 /\ routing' = routing
          /\ req'.route \in {"health", "admin_alias_list", "proxy_webhook"}
                 => routing' = routing
          /\ routing' # routing
                 => /\ req'.route \in AdminRoutes \ {"admin_alias_list"}
                    /\ req'.tok = ADMIN_TOKEN]_vars

\* a delete with a wrong token was refused while the alias map and the default were set
C14_Witness ==
    /\ req.route = "admin_alias_delete" /\ req.alias = "foo"
    /\ ADMIN_TOKEN = "adm" /\ req.tok = "" /\ resp.status = 401
    /\ resolve(V, "foo").ret = "http://a" /\ get_default_alias(V).ret = "foo"


\* C15: list_aliases() has exactly the keys of the in-memory map and of the durable map, a
\* key of the durable map carries the durable URL and any other key its in-memory URL; with
\* no store configured, or the store unreachable, the result is the in-memory map.
C15_ListIsUnion ==
    \A i \in Instances :
        LET all == list_aliases(View(i)).ret
        IN IF hasR /\ up
           THEN /\ DOMAIN all = DOMAIN _mem[i] \cup DOMAIN redis.aliases
                /\ \A k \in DOMAIN redis.aliases : all[k] = redis.aliases[k]
                /\ \A k \in DOMAIN _mem[i] \ DOMAIN redis.aliases : all[k] = _mem[i][k]
           ELSE all = _mem[i]

\* instance 1 holds "foo" with another URL than the durable map and "bar" only in memory
C15_Witness ==
    /\ hasR /\ up
    /\ "foo" \in DOMAIN _mem[1] /\ "foo" \in DOMAIN redis.aliases
    /\ _mem[1]["foo"] = "http://a" /\ redis.aliases["foo"] = "http://b"
    /\ "bar" \in DOMAIN _mem[1] /\ "bar" \notin DOMAIN redis.aliases
    /\ list_aliases(View(1)).ret = [foo |-> "http://b", bar |-> "http://a"]

\* the read fell back to memory while the durable map holds other entries
C15_WitnessFallback ==
    /\ hasR /\ ~up /\ redis.aliases # _mem[1] /\ _mem[1] # EmptyDict
    /\ list_aliases(View(1)).ret = _mem[1]


\* C17: with a store configured and unreachable, an authorized register-target,
\* register-alias, set-default or delete-alias request still performs its in-memory write:
\* afterwards the in-process target, alias map or default pointer holds the new value, and
\* the deleted alias is gone from the in-process map.
C17_MemoryWriteNotBlocked ==
    [][HandlerStep /\ hasR /\ ~up /\ require_admin(req') =>
          /\ req'.route = "admin_register" /\ Truthy(req'.url)
                 => _target_legacy'[Main] = req'.url
          /\ req'.route = "admin_alias_register" /\ Truthy(req'.alias) /\ Truthy(req'.url)
                 => /\ Lower(req'.alias) \in DOMAIN _mem'[Main]
                    /\ _mem'[Main][Lower(req'.alias)] = req'.url
                    /\ req'.default => _default'[Main] \in {req'.alias, Lower(req'.alias)}
          /\ req'.route = "admin_alias_set_default" /\ Truthy(req'.alias)
                 => _default'[Main] \in {req'.alias, Lower(req'.alias)}
          /\ req'.route = "admin_alias_delete"
                 => Lower(req'.alias) \notin DOMAIN _mem'[Main]]_vars


\* what an instance with empty in-process fields reads from the durable store
StoreOnly == [mem |-> EmptyDict, dflt |-> None, tgt |-> None, r |-> redis]

\* C18: with the store configured and reachable, on each of the two instances get_target(),
\* get_default_alias(), list_aliases() and resolve() give what the durable store alone
\* gives: an alias deleted, or a default cleared, through one instance is no longer listed,
\* resolved or reported by the other.
C18_StoreIsSourceOfTruth ==
    hasR /\ up =>
        \A i \in Instances :
            /\ get_target(View(i)).ret = redis.target
            /\ get_default_alias(View(i)).ret = redis.alias_default
            /\ list_aliases(View(i)).ret = redis.aliases
            /\ \A h \in SharedNames \cup {None} :
                   resolve(View(i), h).ret = resolve(StoreOnly, h).ret


\* C19: every value the default pointer takes, in the store and in memory, is lowercase; and
\* a set-default request naming any case variant of a registered alias leaves the lowercase
\* alias as the default, so that resolve(None) gives that alias's URL.
C19_DefaultCaseInsensitive ==
    [][HandlerStep =>
          /\ \A d \in {redis'.alias_default, _default'[Main]} : Truthy(d) => d = Lower(d)
          /\ (/\ req'.route = "admin_alias_set_default" /\ resp'.status = 200
              /\ Lower(req'.alias) \in DOMAIN list_aliases(V)'.ret)
                 => /\ get_default_alias(V)'.ret = Lower(req'.alias)
                    /\ resolve(V, None)'.ret = list_aliases(V)'.ret[Lower(req'.alias)]]_vars


\* the two concurrent requests have returned 200 and name different aliases
BothDone ==
    /\ \A t \in Threads : inflight[t].pc = "done"
    /\ ThreadAlias("del") # ThreadAlias("set")

\* C20: when a delete of a runs concurrently with a set-default of b or a registration of b
\* as default, b # a, the delete's clearing steps never remove a default that names another
\* alias than a, and once both requests have returned get_default_alias() is b, as in both
\* sequential orders.
C20_ConcurrentDeleteKeepsDefault ==
    [][/\ inflight["del"].pc = "clear_store" /\ inflight'["del"].pc = "clear_default"
              => redis.alias_default \in {None, ThreadAlias("del")}
       /\ inflight["del"].pc = "clear_default" /\ inflight'["del"].pc = "respond"
              => _default[Main] \in {None, ThreadAlias("del")}
       /\ BothDone' /\ resp'.status = 200
              => get_default_alias(V)'.ret = ThreadAlias("set")']_vars

====
